---- MODULE Spec2Model ----
(***************************************************************************)
(* A model of the cortex-drift bridge: the schema migration engine         *)
(* (storage/migrations.rs), the cross-database orchestrator                *)
(* (query/cross_db.rs), the drift point lookups (query/drift_queries.rs),  *)
(* the health aggregation (health/readiness.rs, tools/drift_health.rs) and *)
(* the feedback queries of drift-storage (queries/enforcement.rs).         *)
(*                                                                         *)
(* Each subsystem has its own specification over its own variables:        *)
(*   SpecMigrate  sequential migrate calls on one bridge store             *)
(*   SpecAttach   with_drift_attached, its closure and nested calls        *)
(*   SpecQuery    the ten point lookups on a drift store                   *)
(*   SpecRace     two migrate calls whose statements interleave            *)
(*   SpecHealth   compute_health and is_ready over a list of checks        *)
(*   SpecReport   handle_drift_health over the three subsystem handles     *)
(*   SpecAdjust   feedback rows and query_feedback_adjustments             *)
(*   SpecStats    feedback rows, violations and the aggregate statistics   *)
(***************************************************************************)
EXTENDS Integers, Sequences, FiniteSets, TLC

VARIABLES
    store,      \* the bridge store: tables, bridge_metrics rows, bridge_event_log rows
    store0,     \* the store as it was before the first migrate call
    clock,      \* unixepoch(), the default of bridge_metrics.recorded_at
    returns,    \* what each migrate call returned, oldest first
    reads,      \* what each get_schema_version call returned, oldest first
    calls,      \* the migrate calls running side by side: where each one is
    databases,  \* the aliases in the bridge connection's database list
    attached0,  \* whether "drift" was attached when the outermost call was made
    stack,      \* the with_drift_attached calls whose closure is running
    drift,      \* the drift store: its tables and their rows
    drift0,     \* the drift store as it was at the start
    lastCall,   \* how the last with_drift_attached call ended
    lastStmt,   \* the last statement a closure issued, and its outcome
    lastCount,  \* the last count_matching_patterns call and its result
    lastQuery,  \* the last point lookup and its result
    checks,     \* the subsystem checks handed to compute_health
    health,     \* what compute_health returned for them
    ready,      \* what is_ready returned for them
    handles,    \* the three subsystem handles given to handle_drift_health
    report,     \* what handle_drift_health returned
    feedback,   \* the rows of the feedback table, in insertion order
    violations, \* the rows of the violations table
    fclock,     \* unixepoch(), the default of feedback.created_at
    fbResult    \* the last feedback query and its result

migVars == <<store, store0, clock, returns, reads, calls>>
attVars == <<databases, attached0, stack, drift, drift0, lastCall, lastStmt, lastCount>>
qryVars == <<lastQuery>>
hlVars  == <<checks, health, ready>>
rpVars  == <<handles, report>>
fbVars  == <<feedback, violations, fclock, fbResult>>
vars == <<migVars, attVars, qryVars, hlVars, rpVars, fbVars>>

-----------------------------------------------------------------------------
(* Bounds of the model. *)

MaxCalls == 3       \* migrate calls in one behaviour
MaxClock == 3       \* the clock stops advancing here
MaxChecks == 3      \* subsystem checks in one list
MaxRows == 2        \* rows in one drift table
MaxDepth == 2       \* with_drift_attached calls nested in one another
MaxReads == 2       \* get_schema_version calls in one behaviour
MaxIds == 2         \* pattern ids in one count_matching_patterns call
MaxFeedback == 3    \* rows in the feedback table

-----------------------------------------------------------------------------
(* Results. *)

Ok(v) == [tag |-> "Ok", val |-> v]
Err(kind) == [tag |-> "Err", val |-> kind]
IsOk(r) == r.tag = "Ok"

-----------------------------------------------------------------------------
(* storage/migrations.rs *)

CURRENT_VERSION == 1

\* The five tables the batch BRIDGE_TABLES_V1 installs, in statement order;
\* every statement is CREATE TABLE IF NOT EXISTS.
BRIDGE_TABLES_V1 ==
    << "bridge_grounding_results", "bridge_links", "bridge_event_log",
       "bridge_metrics", "bridge_memories" >>

\* metric_value is a REAL column: a value is held in tenths.
AsF64(version) == version * 10

\* CAST(metric_value AS INTEGER) truncates toward zero.
CastAsInteger(real) == real \div 10

MarkerRows(s) ==
    SelectSeq(s.metrics, LAMBDA r : r.metric_name = "schema_version")

\* ORDER BY recorded_at ASC in the place of DESC.
OldestMarker(s) ==
    LET ms == MarkerRows(s)
    IN  CHOOSE i \in 1..Len(ms) :
            \A j \in 1..Len(ms) : ms[i].recorded_at <= ms[j].recorded_at

\* ORDER BY recorded_at DESC LIMIT 1 over the marker rows: a row no other
\* marker row is newer than.
LatestMarker(s) ==
    LET ms == MarkerRows(s)
    IN  CHOOSE i \in 1..Len(ms) :
            \A j \in 1..Len(ms) : ms[j].recorded_at <= ms[i].recorded_at

get_schema_version(s) ==
    IF "bridge_metrics" \notin s.tables
    THEN 0
    ELSE IF Len(MarkerRows(s)) > 0
         THEN CastAsInteger(MarkerRows(s)[LatestMarker(s)].metric_value)
         ELSE IF "bridge_memories" \in s.tables THEN 1 ELSE 0

\* set_schema_version recording the version migrated from, not the one migrated to.
set_schema_version_stale(s, version, now) ==
    [s EXCEPT !.metrics = Append(@,
        [metric_name |-> "schema_version",
         metric_value |-> (version - 1) * 10,
         recorded_at |-> now])]

\* set_schema_version recording the version after the one migrated to.
set_schema_version_next(s, version, now) ==
    [s EXCEPT !.metrics = Append(@,
        [metric_name |-> "schema_version",
         metric_value |-> AsF64(version + 1),
         recorded_at |-> now])]

set_schema_version(s, version, now) ==
    [s EXCEPT !.metrics = Append(@,
        [metric_name |-> "schema_version",
         metric_value |-> AsF64(version),
         recorded_at |-> now])]

\* conn.execute_batch(BRIDGE_TABLES_V1) running its first n statements.
execute_batch(s, n) ==
    [s EXCEPT !.tables = @ \cup {BRIDGE_TABLES_V1[i] : i \in 1..n}]

log_migration(s, step) ==
    [s EXCEPT !.event_log = Append(@,
        [event_type |-> "schema_migration", memory_type |-> step])]

\* The statements of migrate at which the store can fail ("none": it does not).
\* "batch" fails statement failAt of the batch, the earlier ones having run.
Faults == {"none", "read", "batch", "marker", "event", "reread"}

\* migrate without the `current >= CURRENT_VERSION` return: the step runs on
\* every store.
migrate_always(s, now, fault, failAt) ==
    IF fault = "read" THEN <<Err("store"), s>>
    ELSE
    IF fault = "batch" THEN <<Err("store"), execute_batch(s, failAt - 1)>>
    ELSE
    LET s1 == execute_batch(s, Len(BRIDGE_TABLES_V1)) IN
    IF fault = "marker" THEN <<Err("store"), s1>>
    ELSE
    LET s2 == set_schema_version(s1, 1, now) IN
    IF fault = "event" THEN <<Err("store"), s2>>
    ELSE
    LET s3 == log_migration(s2, "v0_to_v1") IN
    IF fault = "reread" THEN <<Err("store"), s3>>
    ELSE <<Ok(get_schema_version(s3)), s3>>

\* migrate(conn): <<the value returned, the store left behind>>.
migrate(s, now, fault, failAt) ==
    IF fault = "read" THEN <<Err("store"), s>>
    ELSE
    LET current == get_schema_version(s) IN
    IF current >= CURRENT_VERSION THEN <<Ok(current), s>>
    ELSE
    IF fault = "batch" THEN <<Err("store"), execute_batch(s, failAt - 1)>>
    ELSE
    LET s1 == execute_batch(s, Len(BRIDGE_TABLES_V1)) IN
    IF fault = "marker" THEN <<Err("store"), s1>>
    ELSE
    LET s2 == set_schema_version(s1, 1, now) IN
    IF fault = "event" THEN <<Err("store"), s2>>
    ELSE
    LET s3 == log_migration(s2, "v0_to_v1") IN
    IF fault = "reread" THEN <<Err("store"), s3>>
    ELSE <<Ok(get_schema_version(s3)), s3>>

\* Stores a bridge can be opened on.
FreshStore == [tables |-> {}, metrics |-> <<>>, event_log |-> <<>>]

AllTables == {BRIDGE_TABLES_V1[i] : i \in 1..Len(BRIDGE_TABLES_V1)}

OtherMetric == [metric_name |-> "grounding_score", metric_value |-> 5, recorded_at |-> 0]
OtherEvent == [event_type |-> "grounding", memory_type |-> "pattern"]

\* Tables created the old way, before the marker row existed.
PreMarkerStores ==
    { [tables |-> AllTables, metrics |-> m, event_log |-> e] :
        m \in {<<>>, <<OtherMetric>>}, e \in {<<>>, <<OtherEvent>>} }

\* A store a later build (CURRENT_VERSION + 1) migrated at time t.
NewerStore(t) ==
    [tables |-> AllTables,
     metrics |-> << [metric_name |-> "schema_version",
                     metric_value |-> AsF64(1), recorded_at |-> 0],
                    [metric_name |-> "schema_version",
                     metric_value |-> AsF64(CURRENT_VERSION + 1), recorded_at |-> t] >>,
     event_log |-> << [event_type |-> "schema_migration", memory_type |-> "v0_to_v1"],
                      [event_type |-> "schema_migration", memory_type |-> "v1_to_v2"] >>]

InitStores == {FreshStore} \cup PreMarkerStores \cup {NewerStore(1)}

Migrate ==
    /\ Len(returns) < MaxCalls
    /\ \E fault \in Faults, failAt \in 1..Len(BRIDGE_TABLES_V1) :
        /\ fault # "batch" => failAt = 1
        /\ LET out == migrate(store, clock, fault, failAt)
           IN  /\ store' = out[2]
               /\ returns' = Append(returns, out[1])
    /\ UNCHANGED <<store0, clock, reads, calls>>

Tick ==
    /\ clock < MaxClock
    /\ clock' = clock + 1
    /\ UNCHANGED <<store, store0, returns, reads, calls>>

\* A get_schema_version call, recorded with the number of migrate calls made
\* before it.
ReadVersion ==
    /\ Len(reads) < MaxReads
    /\ reads' = Append(reads, [version |-> get_schema_version(store),
                               calls |-> Len(returns)])
    /\ UNCHANGED <<store, store0, clock, returns, calls>>

-----------------------------------------------------------------------------
(* migrate called by two callers at once.  The handle's lock is held for    *)
(* one statement at a time, so each statement of migrate is one step and   *)
(* the steps of the two calls interleave.                                  *)

Callers == {"a", "b"}

\* A call that has not started, one about to run the statement `at`, and one
\* that has returned.
NoCall == [pc |-> "none", current |-> 0, result |-> <<>>]
Running(at, current) == [pc |-> at, current |-> current, result |-> <<>>]
Done(current, result) == [pc |-> "done", current |-> current, result |-> <<result>>]

\* Stores at version 0: empty, or with the tables a failed batch left.
VersionZeroStores ==
    {execute_batch(FreshStore, n) : n \in 0..(Len(BRIDGE_TABLES_V1) - 1)}

\* let current = get_schema_version(conn)?;
\* if current >= CURRENT_VERSION { return Ok(current); }
StepRead(p) ==
    /\ calls[p].pc = "read"
    /\ \E failed \in BOOLEAN :
        LET current == get_schema_version(store)
        IN  calls' = [calls EXCEPT ![p] =
                IF failed THEN Done(0, Err("store"))
                ELSE IF current >= CURRENT_VERSION THEN Done(current, Ok(current))
                ELSE Running("batch", current)]
    /\ UNCHANGED <<store, store0, clock, returns, reads>>

\* conn.execute_batch(BRIDGE_TABLES_V1)?;
StepBatch(p) ==
    /\ calls[p].pc = "batch"
    /\ \E failAt \in 0..Len(BRIDGE_TABLES_V1) :
        IF failAt > 0
        THEN /\ store' = execute_batch(store, failAt - 1)
             /\ calls' = [calls EXCEPT ![p] = Done(@.current, Err("store"))]
        ELSE /\ store' = execute_batch(store, Len(BRIDGE_TABLES_V1))
             /\ calls' = [calls EXCEPT ![p] = Running("marker", @.current)]
    /\ UNCHANGED <<store0, clock, returns, reads>>

\* set_schema_version(conn, 1)?;
StepMarker(p) ==
    /\ calls[p].pc = "marker"
    /\ \E failed \in BOOLEAN :
        IF failed
        THEN /\ calls' = [calls EXCEPT ![p] = Done(@.current, Err("store"))]
             /\ UNCHANGED store
        ELSE /\ store' = set_schema_version(store, 1, clock)
             /\ calls' = [calls EXCEPT ![p] = Running("event", @.current)]
    /\ UNCHANGED <<store0, clock, returns, reads>>

\* conn.execute("INSERT INTO bridge_event_log .. 'v0_to_v1'")?;
StepEvent(p) ==
    /\ calls[p].pc = "event"
    /\ \E failed \in BOOLEAN :
        IF failed
        THEN /\ calls' = [calls EXCEPT ![p] = Done(@.current, Err("store"))]
             /\ UNCHANGED store
        ELSE /\ store' = log_migration(store, "v0_to_v1")
             /\ calls' = [calls EXCEPT ![p] = Running("reread", @.current)]
    /\ UNCHANGED <<store0, clock, returns, reads>>

\* let final_version = get_schema_version(conn)?; Ok(final_version)
StepReread(p) ==
    /\ calls[p].pc = "reread"
    /\ \E failed \in BOOLEAN :
        calls' = [calls EXCEPT ![p] =
            IF failed THEN Done(@.current, Err("store"))
            ELSE Done(@.current, Ok(get_schema_version(store)))]
    /\ UNCHANGED <<store, store0, clock, returns, reads>>

-----------------------------------------------------------------------------
(* The drift store, and a connection that sees it. *)

DriftTables ==
    { "drift_patterns", "drift_violation_feedback", "drift_constraints",
      "drift_coupling", "drift_dna", "drift_test_topology",
      "drift_error_handling", "drift_decisions", "drift_boundaries",
      "drift_scans" }

Keys == {"k1", "k2"}
Values == {0, 7}     \* a REAL in tenths, an INTEGER as it is

\* The row of table t with key k and the values a, b in its value columns.
RowOf(t, k, a, b) ==
    CASE t = "drift_patterns" -> [id |-> k, confidence |-> a, occurrence_rate |-> b]
      [] t = "drift_violation_feedback" -> [pattern_id |-> k, fp_rate |-> a]
      [] t = "drift_constraints" -> [id |-> k, verified |-> a]
      [] t = "drift_coupling" -> [module |-> k, instability |-> a]
      [] t = "drift_dna" -> [project |-> k, health_score |-> a]
      [] t = "drift_test_topology" -> [module |-> k, coverage |-> a]
      [] t = "drift_error_handling" -> [module |-> k, gap_count |-> a]
      [] t = "drift_decisions" -> [id |-> k, evidence_score |-> a]
      [] t = "drift_boundaries" -> [id |-> k, boundary_score |-> a]
      [] t = "drift_scans" -> [created_at |-> a]

Seeds == [key : Keys, a : Values, b : Values]
SeedLists == UNION { [1..n -> Seeds] : n \in 0..MaxRows }

\* The drift store without the tables of `missing`, every other table holding
\* the rows the seeds give it.
DriftStore(missing, seeds) ==
    [t \in DriftTables |->
        [exists |-> t \notin missing,
         rows |-> IF t \in missing THEN <<>>
                  ELSE [i \in 1..Len(seeds) |->
                            RowOf(t, seeds[i].key, seeds[i].a, seeds[i].b)]]]

\* The drift store may pre-date any one of its tables, or all of them.
MissingChoices == {{}} \cup {{t} : t \in DriftTables} \cup {DriftTables}

DriftStores == {DriftStore(m, s) : m \in MissingChoices, s \in SeedLists}

Conn(dbs, d) == [dbs |-> dbs, drift |-> d]

\* An unqualified table name resolves through the database list; the bridge's
\* own schema has no drift table.
TableVisible(conn, t) == "drift" \in conn.dbs /\ conn.drift[t].exists

-----------------------------------------------------------------------------
(* query/drift_queries.rs *)

StmtFaults == {"none", "busy"}

Matching(rows, key_column, key) ==
    {i \in 1..Len(rows) : rows[i][key_column] = key}

Min(S) == CHOOSE x \in S : \A y \in S : x <= y

\* row.get::<_, T>(0)
Get(type, v) ==
    CASE type = "f64" -> Ok(v)
      [] type = "bool" -> Ok(v # 0)
      [] type = "u32" -> IF v < 0 THEN Err("IntegralValueOutOfRange") ELSE Ok(v)

\* conn.query_row("SELECT column FROM table WHERE key_column = ?1", [key], get)
query_row(conn, table, column, key_column, key, type, fault) ==
    IF fault # "none" THEN Err("SqliteFailure")
    ELSE IF ~TableVisible(conn, table) THEN Err("no such table")
    ELSE LET rows == conn.drift[table].rows
             hits == Matching(rows, key_column, key)
         IN  IF hits = {} THEN Err("QueryReturnedNoRows")
             ELSE Get(type, rows[Min(hits)][column])

Some(v) == [tag |-> "Some", val |-> v]
None == [tag |-> "None", val |-> 0]

\* The match with every error turned into None.
match_result_lenient(result) ==
    IF IsOk(result) THEN Some(result.val) ELSE None

\* match result { Ok(v) => Ok(Some(v)),
\*                Err(QueryReturnedNoRows) => Ok(None), Err(e) => Err(e.into()) }
match_result(result) ==
    IF IsOk(result) THEN Some(result.val)
    ELSE IF result.val = "QueryReturnedNoRows" THEN None
    ELSE result

pattern_confidence(conn, pattern_id, fault) ==
    match_result(query_row(conn, "drift_patterns", "confidence", "id",
                           pattern_id, "f64", fault))

pattern_occurrence_rate(conn, pattern_id, fault) ==
    match_result(query_row(conn, "drift_patterns", "occurrence_rate", "id",
                           pattern_id, "f64", fault))

false_positive_rate(conn, pattern_id, fault) ==
    match_result(query_row(conn, "drift_violation_feedback", "fp_rate", "pattern_id",
                           pattern_id, "f64", fault))

constraint_verified(conn, constraint_id, fault) ==
    match_result(query_row(conn, "drift_constraints", "verified", "id",
                           constraint_id, "bool", fault))

coupling_metric(conn, module_path, fault) ==
    match_result(query_row(conn, "drift_coupling", "instability", "module",
                           module_path, "f64", fault))

dna_health(conn, project, fault) ==
    match_result(query_row(conn, "drift_dna", "health_score", "project",
                           project, "f64", fault))

test_coverage(conn, module_path, fault) ==
    match_result(query_row(conn, "drift_test_topology", "coverage", "module",
                           module_path, "f64", fault))

error_handling_gaps(conn, module_path, fault) ==
    match_result(query_row(conn, "drift_error_handling", "gap_count", "module",
                           module_path, "u32", fault))

decision_evidence(conn, decision_id, fault) ==
    match_result(query_row(conn, "drift_decisions", "evidence_score", "id",
                           decision_id, "f64", fault))

boundary_data(conn, boundary_id, fault) ==
    match_result(query_row(conn, "drift_boundaries", "boundary_score", "id",
                           boundary_id, "f64", fault))

PointLookups ==
    { "pattern_confidence", "pattern_occurrence_rate", "false_positive_rate",
      "constraint_verified", "coupling_metric", "dna_health", "test_coverage",
      "error_handling_gaps", "decision_evidence", "boundary_data" }

Lookup(fn, conn, key, fault) ==
    CASE fn = "pattern_confidence" -> pattern_confidence(conn, key, fault)
      [] fn = "pattern_occurrence_rate" -> pattern_occurrence_rate(conn, key, fault)
      [] fn = "false_positive_rate" -> false_positive_rate(conn, key, fault)
      [] fn = "constraint_verified" -> constraint_verified(conn, key, fault)
      [] fn = "coupling_metric" -> coupling_metric(conn, key, fault)
      [] fn = "dna_health" -> dna_health(conn, key, fault)
      [] fn = "test_coverage" -> test_coverage(conn, key, fault)
      [] fn = "error_handling_gaps" -> error_handling_gaps(conn, key, fault)
      [] fn = "decision_evidence" -> decision_evidence(conn, key, fault)
      [] fn = "boundary_data" -> boundary_data(conn, key, fault)

\* One point lookup on a connection that has the drift store attached.
PointLookup ==
    /\ lastQuery = <<>>
    /\ \E fn \in PointLookups, key \in Keys, fault \in StmtFaults :
        lastQuery' = << [fn |-> fn, key |-> key, fault |-> fault,
                         result |-> Lookup(fn, Conn(databases, drift), key, fault)] >>
    /\ UNCHANGED attVars

Max(S) == CHOOSE x \in S : \A y \in S : y <= x

\* conn.query_row("SELECT MAX(created_at) FROM drift.drift_scans", [], get):
\* an aggregate gives one row, NULL over no rows.
query_row_max(conn, table, column, fault) ==
    IF fault # "none" THEN Err("SqliteFailure")
    ELSE IF "drift" \notin conn.dbs \/ ~conn.drift[table].exists
    THEN Err("no such table")
    ELSE LET rows == conn.drift[table].rows
         IN  IF Len(rows) = 0 THEN Ok(None)
             ELSE Ok(Some(Max({rows[i][column] : i \in 1..Len(rows)})))

\* The match without its `no such table` arm.
latest_scan_timestamp_strict(conn, fault) ==
    LET result == query_row_max(conn, "drift_scans", "created_at", fault)
    IN  IF IsOk(result) THEN result.val
        ELSE IF result.val = "QueryReturnedNoRows" THEN None
        ELSE result

\* match result { Ok(ts) => Ok(ts), Err(QueryReturnedNoRows) => Ok(None),
\*   Err(e) if e.to_string().contains("no such table") => Ok(None),
\*   Err(e) => Err(e.into()) }
latest_scan_timestamp(conn, fault) ==
    LET result == query_row_max(conn, "drift_scans", "created_at", fault)
    IN  IF IsOk(result) THEN result.val
        ELSE IF result.val = "QueryReturnedNoRows" THEN None
        ELSE IF result.val = "no such table" THEN None
        ELSE result

\* latest_scan_timestamp on a connection that has the drift store attached.
ScanTimestamp ==
    /\ lastStmt = <<>>
    /\ \E fault \in StmtFaults :
        lastStmt' = << [kind |-> "scan", target |-> "drift_scans", fault |-> fault,
                        result |-> latest_scan_timestamp(Conn(databases, drift), fault)] >>
    /\ UNCHANGED <<databases, attached0, stack, drift, drift0, lastCall, lastCount, lastQuery>>

-----------------------------------------------------------------------------
(* query/attach.rs and query/cross_db.rs *)

\* A plain ATTACH, through which statements may write.
PlainAttach == FALSE

\* The attachment is read-only: a statement writing through the alias fails.
AttachedReadOnly == TRUE

\* AttachGuard::attach(conn, path, alias): ATTACH DATABASE path AS alias fails
\* when the file cannot be read or the alias is in use.
AttachGuard_attach(dbs, path_ok, alias) ==
    IF ~path_ok \/ alias \in dbs
    THEN Err("AttachFailed")
    ELSE Ok(dbs \cup {alias})

\* Dropping the guard: DETACH DATABASE alias.
AttachGuard_drop(dbs, alias) == dbs \ {alias}

\* The attach error ignored: the closure runs without a guard.
with_drift_attached_enter_unchecked(dbs, path_ok) ==
    LET a == AttachGuard_attach(dbs, path_ok, "drift")
    IN  IF IsOk(a) THEN Ok([dbs |-> a.val, guard |-> TRUE])
        ELSE Ok([dbs |-> dbs, guard |-> FALSE])

\* let _guard = AttachGuard::attach(bridge_conn, drift_db_path, "drift")?;
with_drift_attached_enter(dbs, path_ok) ==
    LET a == AttachGuard_attach(dbs, path_ok, "drift")
    IN  IF IsOk(a) THEN Ok([dbs |-> a.val, guard |-> TRUE]) ELSE a

\* The guard forgotten instead of dropped.
with_drift_attached_exit_leak(dbs, frame) == dbs

\* The end of with_drift_attached's scope, where _guard is dropped.
with_drift_attached_exit(dbs, frame) ==
    IF frame.guard THEN AttachGuard_drop(dbs, "drift") ELSE dbs

\* conn.execute("INSERT INTO drift.<table> ...") from a closure:
\* <<the statement's result, the drift store left behind>>.
execute_insert(conn, table, row) ==
    IF "drift" \notin conn.dbs \/ ~conn.drift[table].exists
    THEN <<Err("no such table"), conn.drift>>
    ELSE IF AttachedReadOnly
    THEN <<Err("readonly"), conn.drift>>
    ELSE <<Ok(1), [conn.drift EXCEPT ![table].rows = Append(@, row)]>>

\* A with_drift_attached call, from outside or from inside a running closure,
\* up to the point where its closure starts or the call fails.
Call ==
    /\ Len(stack) < MaxDepth
    /\ \E path_ok \in BOOLEAN :
        LET e == with_drift_attached_enter(databases, path_ok)
        IN  IF IsOk(e)
            THEN /\ databases' = e.val.dbs
                 /\ stack' = Append(stack, [guard |-> e.val.guard])
                 /\ UNCHANGED lastCall
            ELSE /\ lastCall' = << [nested |-> stack # <<>>, result |-> "AttachFailed",
                                    closure_ran |-> FALSE] >>
                 /\ UNCHANGED <<databases, stack>>
    /\ attached0' = IF stack = <<>> THEN "drift" \in databases ELSE attached0
    /\ UNCHANGED <<drift, drift0, lastStmt, lastCount, lastQuery>>

\* The running closure looks a reading up.
ClosureLookup ==
    /\ stack # <<>>
    /\ \E fn \in PointLookups, key \in Keys, fault \in StmtFaults :
        lastStmt' = << [kind |-> "lookup", target |-> fn,
                        result |-> Lookup(fn, Conn(databases, drift), key, fault)] >>
    /\ UNCHANGED <<databases, attached0, stack, drift, drift0, lastCall, lastCount, lastQuery>>

\* The running closure issues a statement that writes through the alias.
ClosureWrite ==
    /\ stack # <<>>
    /\ \E table \in DriftTables :
        LET out == execute_insert(Conn(databases, drift), table, RowOf(table, "k1", 7, 7))
        IN  /\ lastStmt' = << [kind |-> "write", target |-> table, result |-> out[1]] >>
            /\ drift' = out[2]
    /\ UNCHANGED <<databases, attached0, stack, drift0, lastCall, lastCount, lastQuery>>

\* The innermost running closure returns and with_drift_attached with it.
Return ==
    /\ stack # <<>>
    /\ \E result \in {"Ok", "Err"} :
        lastCall' = << [nested |-> Len(stack) > 1, result |-> result,
                        closure_ran |-> TRUE] >>
    /\ databases' = with_drift_attached_exit(databases, stack[Len(stack)])
    /\ stack' = SubSeq(stack, 1, Len(stack) - 1)
    /\ UNCHANGED <<attached0, drift, drift0, lastStmt, lastCount, lastQuery>>

\* The lists of pattern ids a caller can hand over.
IdLists == UNION { [1..n -> Keys] : n \in 0..MaxIds }

\* count_matching_patterns without its `if pattern_ids.is_empty()` return.
count_matching_patterns_unguarded(conn, pattern_ids, fault) ==
    IF fault # "none" THEN <<Err("SqliteFailure"), 1>>
    ELSE IF "drift" \notin conn.dbs \/ ~conn.drift["drift_patterns"].exists
    THEN <<Err("no such table"), 1>>
    ELSE LET rows == conn.drift["drift_patterns"].rows
             ids == {pattern_ids[i] : i \in 1..Len(pattern_ids)}
         IN  <<Ok(Cardinality({i \in 1..Len(rows) : rows[i].id \in ids})), 1>>

\* count_matching_patterns(conn, pattern_ids):
\* <<the value returned, the number of statements issued on the connection>>.
\* SELECT COUNT(*) FROM drift.drift_patterns WHERE id IN (?1, ..)
count_matching_patterns(conn, pattern_ids, fault) ==
    IF Len(pattern_ids) = 0 THEN <<Ok(0), 0>>
    ELSE IF fault # "none" THEN <<Err("SqliteFailure"), 1>>
    ELSE IF "drift" \notin conn.dbs \/ ~conn.drift["drift_patterns"].exists
    THEN <<Err("no such table"), 1>>
    ELSE LET rows == conn.drift["drift_patterns"].rows
             ids == {pattern_ids[i] : i \in 1..Len(pattern_ids)}
         IN  <<Ok(Cardinality({i \in 1..Len(rows) : rows[i].id \in ids})), 1>>

\* count_matching_patterns called on the connection, inside a closure of
\* with_drift_attached or outside any.
CountPatterns ==
    /\ lastCount = <<>>
    /\ \E pattern_ids \in IdLists, fault \in StmtFaults :
        LET out == count_matching_patterns(Conn(databases, drift), pattern_ids, fault)
        IN  lastCount' = << [pattern_ids |-> pattern_ids, fault |-> fault,
                             attached |-> "drift" \in databases,
                             result |-> out[1], statements |-> out[2]] >>
    /\ UNCHANGED <<databases, attached0, stack, drift, drift0, lastCall, lastStmt, lastQuery>>

-----------------------------------------------------------------------------
(* health/readiness.rs *)

SubsystemNames == {"cortex_db", "drift_db", "causal_engine"}
Details == {"connected", "not configured"}
SubsystemCheck == [name : SubsystemNames, healthy : BOOLEAN, detail : Details]

CheckLists == UNION { [1..n -> SubsystemCheck] : n \in 0..MaxChecks }

\* The two format arguments swapped.
FormatReasonSwapped(c) == c.detail \o ": " \o c.name

\* format!("{}: {}", c.name, c.detail)
FormatReason(c) == c.name \o ": " \o c.detail

Available == [tag |-> "Available", reasons |-> <<>>]
Degraded(list) == [tag |-> "Degraded", reasons |-> list]
Unavailable == [tag |-> "Unavailable", reasons |-> <<>>]
NotComputed == [tag |-> "none", reasons |-> <<>>]

\* The filter with its negation dropped.
FilterHealthy(cs) == SelectSeq(cs, LAMBDA c : c.healthy)

\* checks.iter().filter(|c| !c.healthy)
FilterUnhealthy(cs) == SelectSeq(cs, LAMBDA c : ~c.healthy)

\* all() in the place of any().
AllHealthy(cs) == \A i \in 1..Len(cs) : cs[i].healthy

\* checks.iter().any(|c| c.healthy)
AnyHealthy(cs) == \E i \in 1..Len(cs) : cs[i].healthy

compute_health(cs) ==
    IF Len(cs) = 0 THEN Unavailable
    ELSE
    LET kept == FilterUnhealthy(cs)
        unhealthy == [i \in 1..Len(kept) |-> FormatReason(kept[i])]
    IN  IF Len(unhealthy) = 0 THEN Available
        ELSE IF AnyHealthy(cs) THEN Degraded(unhealthy)
        ELSE Unavailable

ComputeHealth ==
    /\ health = NotComputed
    /\ health' = compute_health(checks)
    /\ UNCHANGED <<checks, ready>>

\* Any healthy check will do, whatever its name.
is_ready_any(cs) == \E i \in 1..Len(cs) : cs[i].healthy

\* The name alone, without `&& c.healthy`.
is_ready_named(cs) == \E i \in 1..Len(cs) : cs[i].name = "cortex_db"

\* checks.iter().any(|c| c.name == "cortex_db" && c.healthy)
is_ready(cs) == \E i \in 1..Len(cs) : cs[i].name = "cortex_db" /\ cs[i].healthy

IsReady ==
    /\ ready = <<>>
    /\ ready' = <<is_ready(checks)>>
    /\ UNCHANGED <<checks, health>>

-----------------------------------------------------------------------------
(* tools/drift_health.rs.  A handle is absent (None) or present with what   *)
(* the probe of its subsystem gives: Ok or the error of the probe.          *)

ProbeErrors == {"database is locked", "disk I/O error"}
Handles == {None, Some(Ok("connected"))} \cup {Some(Err(e)) : e \in ProbeErrors}

\* A check of health/checks.rs: absent is "not configured", a failed probe is
\* unhealthy with the error as detail.
check_handle(name, handle) ==
    IF handle.tag = "None"
    THEN [name |-> name, healthy |-> FALSE, detail |-> "not configured"]
    ELSE [name |-> name, healthy |-> IsOk(handle.val), detail |-> handle.val.val]

check_cortex_db(cortex_db) == check_handle("cortex_db", cortex_db)
check_drift_db(drift_db) == check_handle("drift_db", drift_db)
check_causal_engine(causal_engine) == check_handle("causal_engine", causal_engine)

\* BridgeHealth::degradation_reasons: the list of Degraded, else none.
degradation_reasons(overall) == overall.reasons

\* match &overall { Available => "available", .. }
status_str(overall) ==
    CASE overall.tag = "Available" -> "available"
      [] overall.tag = "Degraded" -> "degraded"
      [] overall.tag = "Unavailable" -> "unavailable"

\* `ready` taken from the aggregate: ready unless Unavailable.
handle_drift_health_ready_if_up(cortex_db, drift_db, causal_engine) ==
    LET cs == << check_cortex_db(cortex_db), check_drift_db(drift_db),
                 check_causal_engine(causal_engine) >>
        overall == compute_health(cs)
    IN  Ok([status |-> status_str(overall),
            ready |-> overall.tag # "Unavailable",
            subsystem_checks |-> cs,
            degradation_reasons |-> degradation_reasons(overall)])

handle_drift_health(cortex_db, drift_db, causal_engine) ==
    LET cs == << check_cortex_db(cortex_db), check_drift_db(drift_db),
                 check_causal_engine(causal_engine) >>
        overall == compute_health(cs)
    IN  Ok([status |-> status_str(overall),
            ready |-> is_ready(cs),
            subsystem_checks |-> cs,
            degradation_reasons |-> degradation_reasons(overall)])

HandleDriftHealth ==
    /\ report = <<>>
    /\ report' = << handle_drift_health(handles.cortex_db, handles.drift_db,
                                        handles.causal_engine) >>
    /\ UNCHANGED handles

-----------------------------------------------------------------------------
(* drift-storage: the feedback and violations tables and their queries     *)
(* (queries/enforcement.rs).  An (alpha_delta, beta_delta) pair is held in  *)
(* hundredths: (0.0, 0.25) is <<0, 25>>.                                    *)

PatternIds == {"q1", "q2"}
ViolationIds == {"v1", "v2"}
FeedbackActions == {"fix", "dismiss", "suppress", "escalate", "reopen"}
DismissalReasons ==
    {None, Some("false_positive"), Some("not_applicable"), Some("wont_fix"),
     Some("duplicate"), Some("stale")}

\* The arm of wont_fix without its `| Some("duplicate")`.
feedback_action_to_deltas_one_arm(action, dismissal_reason) ==
    CASE action = "fix" -> <<100, 0>>
      [] action = "dismiss" ->
            (CASE dismissal_reason = Some("false_positive") -> <<0, 50>>
               [] dismissal_reason = Some("not_applicable") -> <<0, 25>>
               [] dismissal_reason = Some("wont_fix") -> <<0, 0>>
               [] OTHER -> <<0, 25>>)
      [] action = "suppress" -> <<0, 10>>
      [] action = "escalate" -> <<50, 0>>
      [] OTHER -> <<0, 0>>

feedback_action_to_deltas(action, dismissal_reason) ==
    CASE action = "fix" -> <<100, 0>>
      [] action = "dismiss" ->
            (CASE dismissal_reason = Some("false_positive") -> <<0, 50>>
               [] dismissal_reason = Some("not_applicable") -> <<0, 25>>
               [] dismissal_reason \in {Some("wont_fix"), Some("duplicate")} -> <<0, 0>>
               [] OTHER -> <<0, 25>>)
      [] action = "suppress" -> <<0, 10>>
      [] action = "escalate" -> <<50, 0>>
      [] OTHER -> <<0, 0>>

\* The FeedbackRow handed to insert_feedback; its created_at is not among the
\* columns of the INSERT.
FeedbackRow(violation_id, pattern_id, action, dismissal_reason) ==
    [violation_id |-> violation_id, pattern_id |-> pattern_id,
     action |-> action, dismissal_reason |-> dismissal_reason]

\* INSERT INTO feedback (violation_id, pattern_id, ..): the row is added after
\* the rows there and created_at takes the column default, the time now.
insert_feedback(fb, f, now) ==
    Append(fb, [violation_id |-> f.violation_id, pattern_id |-> f.pattern_id,
                action |-> f.action, dismissal_reason |-> f.dismissal_reason,
                created_at |-> now])

\* ORDER BY created_at ASC in the place of DESC.
query_feedback_by_pattern_asc(fb, pattern_id) ==
    LET idx == {i \in 1..Len(fb) : fb[i].pattern_id = pattern_id}
        n == Cardinality(idx)
        orders == {g \in [1..n -> idx] :
                     /\ \A j, k \in 1..n : j # k => g[j] # g[k]
                     /\ \A k \in 1..(n - 1) :
                            fb[g[k]].created_at <= fb[g[k + 1]].created_at}
    IN  {[k \in 1..n |-> fb[g[k]]] : g \in orders}

\* SELECT .. FROM feedback WHERE pattern_id = ?1 ORDER BY created_at DESC:
\* the lists the query can return, rows of one created_at coming in an order
\* the store chooses.
query_feedback_by_pattern(fb, pattern_id) ==
    LET idx == {i \in 1..Len(fb) : fb[i].pattern_id = pattern_id}
        n == Cardinality(idx)
        orders == {g \in [1..n -> idx] :
                     /\ \A j, k \in 1..n : j # k => g[j] # g[k]
                     /\ \A k \in 1..(n - 1) :
                            fb[g[k]].created_at >= fb[g[k + 1]].created_at}
    IN  {[k \in 1..n |-> fb[g[k]]] : g \in orders}

\* The lists query_feedback_adjustments can return.
query_feedback_adjustments(fb, pattern_id) ==
    { [k \in 1..Len(rows) |->
          feedback_action_to_deltas(rows[k].action, rows[k].dismissal_reason)] :
      rows \in query_feedback_by_pattern(fb, pattern_id) }

\* SELECT action, COUNT(*) FROM feedback GROUP BY action
GroupByAction(fb) ==
    { <<a, Cardinality({i \in 1..Len(fb) : fb[i].action = a})>> :
      a \in {fb[i].action : i \in 1..Len(fb)} }

\* total_count += count inside the four named arms only.
Tally_known(stats, action, count) ==
    LET matched ==
            CASE action = "fix" -> [stats EXCEPT !.fix_count = count]
              [] action = "dismiss" -> [stats EXCEPT !.dismiss_count = count]
              [] action = "suppress" -> [stats EXCEPT !.suppress_count = count]
              [] action = "escalate" -> [stats EXCEPT !.escalate_count = count]
              [] OTHER -> stats
    IN  IF action \in {"fix", "dismiss", "suppress", "escalate"}
        THEN [matched EXCEPT !.total_count = @ + count]
        ELSE matched

\* The body of the loop of query_feedback_stats: the match on the action,
\* then stats.total_count += count.
Tally(stats, action, count) ==
    LET matched ==
            CASE action = "fix" -> [stats EXCEPT !.fix_count = count]
              [] action = "dismiss" -> [stats EXCEPT !.dismiss_count = count]
              [] action = "suppress" -> [stats EXCEPT !.suppress_count = count]
              [] action = "escalate" -> [stats EXCEPT !.escalate_count = count]
              [] OTHER -> stats
    IN  [matched EXCEPT !.total_count = @ + count]

\* The loop of query_feedback_stats over the groups.
RECURSIVE FoldStats(_, _)
FoldStats(stats, groups) ==
    IF groups = {} THEN stats
    ELSE LET row == CHOOSE g \in groups : TRUE
         IN  FoldStats(Tally(stats, row[1], row[2]), groups \ {row})

\* FeedbackStats::default()
FeedbackStats_default ==
    [total_count |-> 0, fix_count |-> 0, dismiss_count |-> 0,
     suppress_count |-> 0, escalate_count |-> 0]

query_feedback_stats(fb) == FoldStats(FeedbackStats_default, GroupByAction(fb))

ViolationRow(id, suppressed) == [id |-> id, suppressed |-> suppressed]

\* INSERT OR REPLACE INTO violations: a row of the same id is replaced.
insert_violation(vs, v) == {w \in vs : w.id # v.id} \cup {v}

\* action IN ('dismiss', 'fix', 'suppress').
count_needs_review_suppress(vs, fb) ==
    LET acted == {fb[i].violation_id :
                    i \in {j \in 1..Len(fb) : fb[j].action \in {"dismiss", "fix", "suppress"}}}
    IN  Cardinality({v \in vs : ~v.suppressed /\ v.id \notin acted})

\* SELECT COUNT(*) FROM violations WHERE suppressed = 0 AND id NOT IN
\* (SELECT violation_id FROM feedback WHERE action IN ('dismiss', 'fix'))
count_needs_review(vs, fb) ==
    LET acted == {fb[i].violation_id :
                    i \in {j \in 1..Len(fb) : fb[j].action \in {"dismiss", "fix"}}}
    IN  Cardinality({v \in vs : ~v.suppressed /\ v.id \notin acted})

\* The rows of S6 for pattern q1 and a row of another pattern.
AdjustInputs ==
    { FeedbackRow("v1", "q1", "fix", None),
      FeedbackRow("v1", "q1", "dismiss", Some("false_positive")),
      FeedbackRow("v1", "q1", "suppress", None),
      FeedbackRow("v2", "q2", "escalate", None) }

\* Rows of every action for every violation.
StatsInputs ==
    { FeedbackRow(v, "q1", a, None) : v \in ViolationIds, a \in FeedbackActions }

\* One-row tables of every action and dismissal reason.
DeltaTables ==
    { insert_feedback(<<>>, FeedbackRow("v1", q, a, r), 1) :
        q \in PatternIds, a \in FeedbackActions, r \in DismissalReasons }

InsertFeedback(inputs) ==
    /\ fbResult = <<>>
    /\ Len(feedback) < MaxFeedback
    /\ \E f \in inputs : feedback' = insert_feedback(feedback, f, fclock)
    /\ UNCHANGED <<violations, fclock, fbResult>>

InsertViolation ==
    /\ fbResult = <<>>
    /\ \E id \in ViolationIds, suppressed \in BOOLEAN :
        violations' = insert_violation(violations, ViolationRow(id, suppressed))
    /\ UNCHANGED <<feedback, fclock, fbResult>>

\* A second passes.
FeedbackTick ==
    /\ fbResult = <<>>
    /\ fclock < MaxClock
    /\ fclock' = fclock + 1
    /\ UNCHANGED <<feedback, violations, fbResult>>

QueryAdjustments ==
    /\ fbResult = <<>>
    /\ \E pattern_id \in PatternIds :
       \E val \in query_feedback_adjustments(feedback, pattern_id) :
        fbResult' = <<[fn |-> "query_feedback_adjustments",
                       pattern_id |-> pattern_id, val |-> val]>>
    /\ UNCHANGED <<feedback, violations, fclock>>

QueryStats ==
    /\ fbResult = <<>>
    /\ fbResult' = <<[fn |-> "query_feedback_stats",
                      val |-> query_feedback_stats(feedback)]>>
    /\ UNCHANGED <<feedback, violations, fclock>>

CountNeedsReview ==
    /\ fbResult = <<>>
    /\ fbResult' = <<[fn |-> "count_needs_review",
                      val |-> count_needs_review(violations, feedback)]>>
    /\ UNCHANGED <<feedback, violations, fclock>>

-----------------------------------------------------------------------------
(* Specifications. *)

IdleMigrate ==
    /\ store = FreshStore /\ store0 = FreshStore /\ clock = 1 /\ returns = <<>>
    /\ reads = <<>> /\ calls = [p \in Callers |-> NoCall]

IdleAttach ==
    /\ databases = {"main"} /\ attached0 = FALSE /\ stack = <<>>
    /\ drift = DriftStore({}, <<>>) /\ drift0 = drift
    /\ lastCall = <<>> /\ lastStmt = <<>> /\ lastCount = <<>>

IdleQuery == lastQuery = <<>>

IdleHealth == checks = <<>> /\ health = NotComputed /\ ready = <<>>

IdleReport ==
    /\ handles = [cortex_db |-> None, drift_db |-> None, causal_engine |-> None]
    /\ report = <<>>

IdleFeedback ==
    /\ feedback = <<>> /\ violations = {} /\ fclock = 1 /\ fbResult = <<>>

InitMigrate ==
    /\ store \in InitStores /\ store0 = store /\ clock = 1 /\ returns = <<>>
    /\ reads = <<>> /\ calls = [p \in Callers |-> NoCall]
    /\ IdleAttach /\ IdleQuery /\ IdleHealth /\ IdleReport /\ IdleFeedback

NextMigrate ==
    \/ Migrate /\ UNCHANGED <<attVars, qryVars, hlVars, rpVars, fbVars>>
    \/ Tick /\ UNCHANGED <<attVars, qryVars, hlVars, rpVars, fbVars>>
    \/ ReadVersion /\ UNCHANGED <<attVars, qryVars, hlVars, rpVars, fbVars>>

SpecMigrate == InitMigrate /\ [][NextMigrate]_vars

\* Two migrate calls started on one store of version 0.
InitRace ==
    /\ store \in VersionZeroStores /\ store0 = store /\ clock = 1
    /\ returns = <<>> /\ reads = <<>>
    /\ calls = [p \in Callers |-> Running("read", 0)]
    /\ IdleAttach /\ IdleQuery /\ IdleHealth /\ IdleReport /\ IdleFeedback

NextRace ==
    \/ (\E p \in Callers : StepRead(p)) /\ UNCHANGED <<attVars, qryVars, hlVars, rpVars, fbVars>>
    \/ (\E p \in Callers : StepBatch(p)) /\ UNCHANGED <<attVars, qryVars, hlVars, rpVars, fbVars>>
    \/ (\E p \in Callers : StepMarker(p)) /\ UNCHANGED <<attVars, qryVars, hlVars, rpVars, fbVars>>
    \/ (\E p \in Callers : StepEvent(p)) /\ UNCHANGED <<attVars, qryVars, hlVars, rpVars, fbVars>>
    \/ (\E p \in Callers : StepReread(p)) /\ UNCHANGED <<attVars, qryVars, hlVars, rpVars, fbVars>>
    \/ Tick /\ UNCHANGED <<attVars, qryVars, hlVars, rpVars, fbVars>>

SpecRace == InitRace /\ [][NextRace]_vars

AttachStores ==
    { DriftStore(m, s) : m \in {{}, {"drift_patterns"}, {"drift_constraints"}},
                         s \in {<<>>, <<[key |-> "k1", a |-> 7, b |-> 0]>>} }

InitAttach ==
    /\ drift \in AttachStores /\ drift0 = drift
    /\ databases \in {{"main"}, {"main", "drift"}}
    /\ attached0 = ("drift" \in databases)
    /\ stack = <<>> /\ lastCall = <<>> /\ lastStmt = <<>> /\ lastQuery = <<>>
    /\ lastCount = <<>>
    /\ IdleMigrate /\ IdleHealth /\ IdleReport /\ IdleFeedback

NextAttach ==
    \/ Call /\ UNCHANGED <<migVars, hlVars, rpVars, fbVars>>
    \/ ClosureLookup /\ UNCHANGED <<migVars, hlVars, rpVars, fbVars>>
    \/ ClosureWrite /\ UNCHANGED <<migVars, hlVars, rpVars, fbVars>>
    \/ Return /\ UNCHANGED <<migVars, hlVars, rpVars, fbVars>>
    \/ CountPatterns /\ UNCHANGED <<migVars, hlVars, rpVars, fbVars>>

SpecAttach == InitAttach /\ [][NextAttach]_vars

InitQuery ==
    /\ drift \in DriftStores /\ drift0 = drift
    /\ databases = {"main", "drift"} /\ attached0 = TRUE /\ stack = <<>>
    /\ lastCall = <<>> /\ lastStmt = <<>> /\ lastQuery = <<>> /\ lastCount = <<>>
    /\ IdleMigrate /\ IdleHealth /\ IdleReport /\ IdleFeedback

NextQuery ==
    \/ PointLookup /\ UNCHANGED <<migVars, hlVars, rpVars, fbVars>>
    \/ ScanTimestamp /\ UNCHANGED <<migVars, hlVars, rpVars, fbVars>>

SpecQuery == InitQuery /\ [][NextQuery]_vars

InitHealth ==
    /\ checks \in CheckLists /\ health = NotComputed /\ ready = <<>>
    /\ IdleMigrate /\ IdleAttach /\ IdleQuery /\ IdleReport /\ IdleFeedback

NextHealth ==
    \/ ComputeHealth /\ UNCHANGED <<migVars, attVars, qryVars, rpVars, fbVars>>
    \/ IsReady /\ UNCHANGED <<migVars, attVars, qryVars, rpVars, fbVars>>

SpecHealth == InitHealth /\ [][NextHealth]_vars

\* handle_drift_health on every combination of the three handles.
InitReport ==
    /\ handles \in [cortex_db : Handles, drift_db : Handles, causal_engine : Handles]
    /\ report = <<>>
    /\ IdleMigrate /\ IdleAttach /\ IdleQuery /\ IdleHealth /\ IdleFeedback

NextReport == HandleDriftHealth /\ UNCHANGED <<migVars, attVars, qryVars, hlVars, fbVars>>

SpecReport == InitReport /\ [][NextReport]_vars

\* feedback_action_to_deltas on one row of every action and reason.
InitDeltas ==
    /\ feedback \in DeltaTables /\ violations = {} /\ fclock = 1 /\ fbResult = <<>>
    /\ IdleMigrate /\ IdleAttach /\ IdleQuery /\ IdleHealth /\ IdleReport

NextDeltas == QueryAdjustments /\ UNCHANGED <<migVars, attVars, qryVars, hlVars, rpVars>>

SpecDeltas == InitDeltas /\ [][NextDeltas]_vars

\* Feedback rows inserted over time and the adjustments of a pattern.
InitAdjust ==
    /\ IdleFeedback
    /\ IdleMigrate /\ IdleAttach /\ IdleQuery /\ IdleHealth /\ IdleReport

NextAdjust ==
    \/ InsertFeedback(AdjustInputs) /\ UNCHANGED <<migVars, attVars, qryVars, hlVars, rpVars>>
    \/ FeedbackTick /\ UNCHANGED <<migVars, attVars, qryVars, hlVars, rpVars>>
    \/ QueryAdjustments /\ UNCHANGED <<migVars, attVars, qryVars, hlVars, rpVars>>

SpecAdjust == InitAdjust /\ [][NextAdjust]_vars

\* Feedback rows and violations, and the aggregate statistics over them.
InitStats ==
    /\ IdleFeedback
    /\ IdleMigrate /\ IdleAttach /\ IdleQuery /\ IdleHealth /\ IdleReport

NextStats ==
    \/ InsertFeedback(StatsInputs) /\ UNCHANGED <<migVars, attVars, qryVars, hlVars, rpVars>>
    \/ InsertViolation /\ UNCHANGED <<migVars, attVars, qryVars, hlVars, rpVars>>
    \/ QueryStats /\ UNCHANGED <<migVars, attVars, qryVars, hlVars, rpVars>>
    \/ CountNeedsReview /\ UNCHANGED <<migVars, attVars, qryVars, hlVars, rpVars>>

SpecStats == InitStats /\ [][NextStats]_vars

-----------------------------------------------------------------------------
(* Properties of migrate. *)

Returned == Len(returns) > 0
LastReturn == returns[Len(returns)]

MigrationRows(s) ==
    Len(SelectSeq(s.event_log, LAMBDA r : r.event_type = "schema_migration"))

\* C1 as stated: whatever the store held, get_schema_version after a
\* successful migrate is CURRENT_VERSION.
C1_AnyStoreEndsAtCurrent ==
    (Returned /\ IsOk(LastReturn)) => get_schema_version(store) = CURRENT_VERSION

\* C1, amended: after a successful migrate get_schema_version is CURRENT_VERSION
\* for every store that was at most at CURRENT_VERSION, and is the store's own
\* greater version, the store untouched, for a store beyond CURRENT_VERSION.
C1_EndsAtCurrentUnlessNewer ==
    (Returned /\ IsOk(LastReturn)) =>
        IF get_schema_version(store0) <= CURRENT_VERSION
        THEN get_schema_version(store) = CURRENT_VERSION
        ELSE store = store0 /\ get_schema_version(store) = get_schema_version(store0)

C1_Witness ==
    /\ Returned /\ IsOk(LastReturn)
    /\ store0 = FreshStore
    /\ Len(MarkerRows(store)) = 1
    /\ get_schema_version(store) = CURRENT_VERSION

\* C2: two consecutive migrate calls return the same version, and once a call
\* has succeeded the event log has gained exactly one schema_migration row per
\* version step the store has gone through.
C2_IdempotentOneRowPerStep ==
    /\ \A i \in 1..(Len(returns) - 1) :
        (IsOk(returns[i]) /\ IsOk(returns[i + 1])) => returns[i].val = returns[i + 1].val
    /\ (Returned /\ IsOk(LastReturn)) =>
        MigrationRows(store) - MigrationRows(store0)
            = get_schema_version(store) - get_schema_version(store0)

-----------------------------------------------------------------------------
(* Properties of compute_health. *)

Computed == health # NotComputed

Unhealthy(cs) == {i \in 1..Len(cs) : ~cs[i].healthy}

\* C8 as stated: for every list, the empty one included, the result is
\* Available exactly when every check is healthy.
C8_AvailableIffAllHealthy ==
    Computed =>
        (health.tag = "Available" <=> \A i \in 1..Len(checks) : checks[i].healthy)

\* C8, amended: for every non-empty list the result is Available exactly when
\* every check is healthy; for the empty list it is Unavailable.
C8_AvailableIffNonEmptyAllHealthy ==
    Computed =>
        /\ health.tag = "Available" <=>
            (Len(checks) > 0 /\ \A i \in 1..Len(checks) : checks[i].healthy)
        /\ Len(checks) = 0 => health = Unavailable

C8_Witness ==
    /\ Computed /\ Len(checks) >= 2
    /\ \A i \in 1..Len(checks) : checks[i].healthy
    /\ health = Available

\* C9: the result is Unavailable for the empty list and for every list with no
\* healthy check, and for no other list.
C9_UnavailableIffEmptyOrNoneHealthy ==
    Computed =>
        (health.tag = "Unavailable" <=>
            (Len(checks) = 0 \/ \A i \in 1..Len(checks) : ~checks[i].healthy))

C9_Witness ==
    /\ Computed /\ Len(checks) >= 2
    /\ \A i \in 1..Len(checks) : ~checks[i].healthy
    /\ health = Unavailable

\* C10: for a list with a healthy and an unhealthy check the result is
\* Degraded(list): the k-th unhealthy check of the input is the k-th entry,
\* as "{name}: {detail}", and there is no other entry.
C10_DegradedListsUnhealthyInOrder ==
    (Computed /\ Unhealthy(checks) # {} /\ Unhealthy(checks) # 1..Len(checks)) =>
        /\ health.tag = "Degraded"
        /\ Len(health.reasons) = Cardinality(Unhealthy(checks))
        /\ \A i \in Unhealthy(checks) :
            health.reasons[Cardinality({j \in Unhealthy(checks) : j <= i})]
                = checks[i].name \o ": " \o checks[i].detail

C10_Witness ==
    /\ Computed /\ Len(checks) = 3
    /\ Unhealthy(checks) = {1, 3}
    /\ checks[1].name # checks[3].name
    /\ health.tag = "Degraded" /\ Len(health.reasons) = 2

-----------------------------------------------------------------------------
(* Properties of the point lookups. *)

Queried == Len(lastQuery) > 0
Q == lastQuery[1]

\* What each lookup reads: its table, the column it returns, the column the
\* key selects on, and whether the reading is a boolean.
Reads(fn) ==
    CASE fn = "pattern_confidence" -> <<"drift_patterns", "confidence", "id", FALSE>>
      [] fn = "pattern_occurrence_rate" -> <<"drift_patterns", "occurrence_rate", "id", FALSE>>
      [] fn = "false_positive_rate" -> <<"drift_violation_feedback", "fp_rate", "pattern_id", FALSE>>
      [] fn = "constraint_verified" -> <<"drift_constraints", "verified", "id", TRUE>>
      [] fn = "coupling_metric" -> <<"drift_coupling", "instability", "module", FALSE>>
      [] fn = "dna_health" -> <<"drift_dna", "health_score", "project", FALSE>>
      [] fn = "test_coverage" -> <<"drift_test_topology", "coverage", "module", FALSE>>
      [] fn = "error_handling_gaps" -> <<"drift_error_handling", "gap_count", "module", FALSE>>
      [] fn = "decision_evidence" -> <<"drift_decisions", "evidence_score", "id", FALSE>>
      [] fn = "boundary_data" -> <<"drift_boundaries", "boundary_score", "id", FALSE>>

QTable == drift[Reads(Q.fn)[1]]
QHits == {i \in 1..Len(QTable.rows) : QTable.rows[i][Reads(Q.fn)[3]] = Q.key}

\* C6: a lookup whose table the drift store does not have returns Ok(None).
C6_MissingTableIsNone ==
    (Queried /\ Q.fault = "none" /\ ~QTable.exists) => Q.result = None

\* C7: with the table present, a lookup returns Some(the mapped column of the
\* first row with the key) when there is such a row and None when there is
\* none; a statement that fails otherwise returns the error, never None.
C7_SomeNoneOrError ==
    Queried =>
        /\ (Q.fault = "none" /\ QTable.exists /\ QHits # {}) =>
            /\ Q.result.tag = "Some"
            /\ LET v == QTable.rows[Min(QHits)][Reads(Q.fn)[2]]
               IN  Q.result.val = IF Reads(Q.fn)[4] THEN v # 0 ELSE v
        /\ (Q.fault = "none" /\ QTable.exists /\ QHits = {}) => Q.result = None
        /\ Q.fault # "none" => Q.result.tag = "Err"

C7_WitnessSome ==
    /\ Queried /\ Q.fn = "pattern_occurrence_rate" /\ Q.fault = "none"
    /\ QTable.exists /\ Cardinality(QHits) = 2
    /\ QTable.rows[1].occurrence_rate # QTable.rows[1].confidence
    /\ QTable.rows[1].occurrence_rate # QTable.rows[2].occurrence_rate
    /\ Q.result = Some(QTable.rows[1].occurrence_rate)

-----------------------------------------------------------------------------
(* Properties of with_drift_attached. *)

Called == Len(lastCall) > 0
LiveGuards == {i \in 1..Len(stack) : stack[i].guard}

C4_OneGuardNestedFails ==
    /\ Cardinality(LiveGuards) <= 1
    /\ Len(stack) <= 1
    /\ stack # <<>> => "drift" \in databases
    /\ (Called /\ lastCall[1].nested) =>
        (lastCall[1].result = "AttachFailed" /\ ~lastCall[1].closure_ran)

C4_Witness ==
    /\ Called /\ lastCall[1].nested /\ lastCall[1].result = "AttachFailed"
    /\ Len(stack) = 1 /\ stack[1].guard
    /\ "drift" \in databases

-----------------------------------------------------------------------------
(* Properties of is_ready and get_schema_version. *)

\* C11: is_ready is true exactly when some check named cortex_db is healthy;
\* checks of drift_db and causal_engine, healthy or not, do not count.
C11_ReadyIffCortexHealthy ==
    Len(ready) > 0 =>
        (ready[1] <=> \E i \in 1..Len(checks) :
                          checks[i].name = "cortex_db" /\ checks[i].healthy)

C11_WitnessNotReady ==
    /\ Len(ready) > 0 /\ ~ready[1]
    /\ \E i \in 1..Len(checks) : checks[i].name = "drift_db" /\ checks[i].healthy
    /\ \E i \in 1..Len(checks) : checks[i].name = "causal_engine" /\ checks[i].healthy
    /\ \E i \in 1..Len(checks) : checks[i].name = "cortex_db" /\ ~checks[i].healthy

HasRead == Len(reads) > 0 /\ reads[Len(reads)].calls = Len(returns)
LastRead == reads[Len(reads)].version
Markers == {i \in 1..Len(store.metrics) : store.metrics[i].metric_name = "schema_version"}

-----------------------------------------------------------------------------
(* Properties of one migrate call. *)

MigrateReturns == returns' # returns
NewReturn == returns'[Len(returns')]

\* C13: a migrate call on a store whose version is CURRENT_VERSION or more (a
\* pre-marker store among them) returns that version and leaves the store as
\* it was: no table, no marker row and no event row is added.  (The call
\* returns an error when the read of the version itself fails.)
C13_NoOpAtOrAboveCurrent ==
    [][ (MigrateReturns /\ get_schema_version(store) >= CURRENT_VERSION) =>
            /\ store' = store
            /\ \/ NewReturn = Ok(get_schema_version(store))
               \/ NewReturn = migrate(store, clock, "read", 1)[1] ]_vars

C13_WitnessPreMarker ==
    /\ Returned /\ LastReturn = Ok(1)
    /\ store0 \in PreMarkerStores /\ store = store0
    /\ store.event_log # <<>>

\* The statements of the step v0 -> v1.
StepFaults == {"batch", "marker", "event"}

\* A migrate call in which a statement of the step failed.
StepFails ==
    /\ MigrateReturns
    /\ get_schema_version(store) < CURRENT_VERSION
    /\ \E fault \in StepFaults, failAt \in 1..Len(BRIDGE_TABLES_V1) :
        /\ fault # "batch" => failAt = 1
        /\ migrate(store, clock, fault, failAt) = <<NewReturn, store'>>

HasMarker(s, version) ==
    \E i \in 1..Len(s.metrics) :
        /\ s.metrics[i].metric_name = "schema_version"
        /\ s.metrics[i].metric_value = AsF64(version)

HasEvent(s, step) ==
    \E i \in 1..Len(s.event_log) :
        /\ s.event_log[i].event_type = "schema_migration"
        /\ s.event_log[i].memory_type = step

\* C14: when a statement of the step v -> v+1 fails, migrate returns an error,
\* get_schema_version still returns v, and the marker row and the event row of
\* v+1 are both present or both absent.
C14_FailedStepLeavesVersion ==
    [][ StepFails =>
            /\ ~IsOk(NewReturn)
            /\ get_schema_version(store') = get_schema_version(store)
            /\ (HasMarker(store', 1) <=> HasEvent(store', "v0_to_v1")) ]_vars

-----------------------------------------------------------------------------
(* Properties of the feedback calculus and the aggregate statistics. *)

Asked(fn) == Len(fbResult) > 0 /\ fbResult[1].fn = fn
Answer == fbResult[1].val

\* The table of alpha and beta deltas, in hundredths.
DeltaTable(action, reason) ==
    IF action = "fix" THEN <<100, 0>>
    ELSE IF action = "dismiss" /\ reason = Some("false_positive") THEN <<0, 50>>
    ELSE IF action = "dismiss" /\ reason = Some("not_applicable") THEN <<0, 25>>
    ELSE IF action = "dismiss" /\ reason = Some("wont_fix") THEN <<0, 0>>
    ELSE IF action = "dismiss" /\ reason = Some("duplicate") THEN <<0, 0>>
    ELSE IF action = "dismiss" THEN <<0, 25>>
    ELSE IF action = "suppress" THEN <<0, 10>>
    ELSE IF action = "escalate" THEN <<50, 0>>
    ELSE <<0, 0>>

\* C15: the deltas of a feedback row are those of the table, for every action
\* and every dismissal reason, present or absent; for an action other than
\* dismiss the reason makes no difference.
C15_DeltasFollowTable ==
    (Asked("query_feedback_adjustments") /\ Len(feedback) = 1
        /\ fbResult[1].pattern_id = feedback[1].pattern_id) =>
        /\ Answer = <<DeltaTable(feedback[1].action, feedback[1].dismissal_reason)>>
        /\ feedback[1].action # "dismiss" =>
                \A r \in DismissalReasons :
                    Answer[1] = feedback_action_to_deltas(feedback[1].action, r)

C15_WitnessDuplicate ==
    /\ Asked("query_feedback_adjustments") /\ Len(feedback) = 1
    /\ feedback[1].action = "dismiss"
    /\ feedback[1].dismissal_reason = Some("duplicate")
    /\ Answer = << <<0, 0>> >>

\* The rows of a pattern, in the order they were inserted.
RowsOf(pattern_id) == SelectSeq(feedback, LAMBDA f : f.pattern_id = pattern_id)
DeltasOf(rows) ==
    [k \in 1..Len(rows) |-> DeltaTable(rows[k].action, rows[k].dismissal_reason)]
S6Rows(rows) ==
    /\ Len(rows) = 3
    /\ rows[1].action = "fix"
    /\ rows[2].action = "dismiss" /\ rows[2].dismissal_reason = Some("false_positive")
    /\ rows[3].action = "suppress"

\* C16 as stated: after the rows fix, dismiss/false_positive, suppress of a
\* pattern, its adjustments are [(1.0,0.0), (0.0,0.5), (0.0,0.1)], in the
\* order the rows were inserted.
C16_AdjustmentsInInsertionOrder ==
    (Asked("query_feedback_adjustments") /\ S6Rows(RowsOf(fbResult[1].pattern_id))) =>
        Answer = << <<100, 0>>, <<0, 50>>, <<0, 10>> >>

\* C16 amended: the adjustments of a pattern hold one entry per feedback row
\* of that pattern and none for rows of other patterns, the entries of rows
\* with a later created_at first; rows of one created_at come in any order.
C16_AdjustmentsNewestFirst ==
    Asked("query_feedback_adjustments") =>
        LET rows == RowsOf(fbResult[1].pattern_id)
            n == Len(rows)
        IN  /\ Len(Answer) = n
            /\ \E g \in [1..n -> 1..n] :
                /\ \A j, k \in 1..n : j # k => g[j] # g[k]
                /\ \A j, k \in 1..n :
                    rows[g[j]].created_at > rows[g[k]].created_at => j < k
                /\ \A k \in 1..n : Answer[k] = DeltasOf(rows)[g[k]]

C16_WitnessReversed ==
    /\ Asked("query_feedback_adjustments")
    /\ S6Rows(RowsOf(fbResult[1].pattern_id))
    /\ \A k \in 1..3 : RowsOf(fbResult[1].pattern_id)[k].created_at = k
    /\ Answer = << <<0, 10>>, <<0, 50>>, <<100, 0>> >>

RowsWith(action) == {i \in 1..Len(feedback) : feedback[i].action = action}

\* C17: each of the four counts of query_feedback_stats is the number of
\* feedback rows of that action, and total_count is the number of all rows,
\* those of an unrecognised action included.
C17_StatsCountRows ==
    Asked("query_feedback_stats") =>
        /\ Answer.fix_count = Cardinality(RowsWith("fix"))
        /\ Answer.dismiss_count = Cardinality(RowsWith("dismiss"))
        /\ Answer.suppress_count = Cardinality(RowsWith("suppress"))
        /\ Answer.escalate_count = Cardinality(RowsWith("escalate"))
        /\ Answer.total_count = Len(feedback)
        /\ Answer.total_count >= Answer.fix_count + Answer.dismiss_count
                                    + Answer.suppress_count + Answer.escalate_count

C17_WitnessUnrecognised ==
    /\ Asked("query_feedback_stats")
    /\ Cardinality(RowsWith("reopen")) = 1 /\ Cardinality(RowsWith("fix")) = 2
    /\ Answer.total_count = 3 /\ Answer.fix_count = 2

\* C18: count_needs_review is the number of stored violations that are not
\* suppressed and have no feedback row of action fix or dismiss; a row of
\* action suppress or escalate leaves the violation in the count.
C18_NeedsReviewCount ==
    Asked("count_needs_review") =>
        Answer = Cardinality({v \in violations :
                    /\ ~v.suppressed
                    /\ \A i \in 1..Len(feedback) :
                        feedback[i].violation_id = v.id =>
                            feedback[i].action \notin {"fix", "dismiss"}})

C18_WitnessSuppressStays ==
    /\ Asked("count_needs_review") /\ Answer = 1
    /\ violations = {ViolationRow("v1", FALSE), ViolationRow("v2", FALSE)}
    /\ \E i, j, k \in 1..Len(feedback) :
        /\ feedback[i].violation_id = "v1" /\ feedback[i].action = "suppress"
        /\ feedback[j].violation_id = "v1" /\ feedback[j].action = "escalate"
        /\ feedback[k].violation_id = "v2" /\ feedback[k].action = "fix"

-----------------------------------------------------------------------------
(* Properties of handle_drift_health and count_matching_patterns. *)

Reported == Len(report) > 0
Live(handle) == handle.tag = "Some" /\ handle.val.tag = "Ok"
HandleList == <<handles.cortex_db, handles.drift_db, handles.causal_engine>>

\* C19: for every combination of absent, live and failing handles,
\* handle_drift_health returns Ok with the three checks in the order
\* cortex_db, drift_db, causal_engine, a subsystem that is absent or failing
\* reported as healthy = false; status is the tag of compute_health over the
\* checks and ready is is_ready over them.  With cortex_db live, drift_db
\* absent and causal_engine live: degraded, ["drift_db: not configured"],
\* ready.
C19_HealthReportInBand ==
    Reported =>
        /\ IsOk(report[1])
        /\ LET r == report[1].val
               cs == r.subsystem_checks
           IN  /\ [i \in 1..Len(cs) |-> cs[i].name]
                    = <<"cortex_db", "drift_db", "causal_engine">>
               /\ \A i \in 1..3 : cs[i].healthy <=> Live(HandleList[i])
               /\ \A i \in 1..3 :
                    HandleList[i].tag = "None" => cs[i].detail = "not configured"
               /\ r.status = "available" <=> \A i \in 1..3 : Live(HandleList[i])
               /\ r.status = "unavailable" <=> \A i \in 1..3 : ~Live(HandleList[i])
               /\ r.status \in {"available", "degraded", "unavailable"}
               /\ r.ready <=> Live(handles.cortex_db)
               /\ r.ready = is_ready(cs)
               /\ (r.status = "degraded") = (compute_health(cs).tag = "Degraded")
               /\ (Live(handles.cortex_db) /\ handles.drift_db.tag = "None"
                        /\ Live(handles.causal_engine)) =>
                    /\ r.status = "degraded"
                    /\ r.degradation_reasons = <<"drift_db: not configured">>
                    /\ r.ready

C19_WitnessDriftNotConfigured ==
    /\ Reported /\ IsOk(report[1])
    /\ Live(handles.cortex_db) /\ handles.drift_db.tag = "None"
    /\ Live(handles.causal_engine)
    /\ report[1].val.status = "degraded"
    /\ report[1].val.degradation_reasons = <<"drift_db: not configured">>
    /\ report[1].val.ready

Counted == Len(lastCount) > 0

\* C20: count_matching_patterns with an empty id list returns 0 and issues no
\* statement on the connection, attached or not.
C20_EmptyIdsNoStatement ==
    (Counted /\ lastCount[1].pattern_ids = <<>>) =>
        /\ lastCount[1].result = Ok(0)
        /\ lastCount[1].statements = 0

C20_WitnessNotAttached ==
    /\ Counted /\ lastCount[1].pattern_ids = <<>>
    /\ ~lastCount[1].attached
    /\ lastCount[1].result = Ok(0)

-----------------------------------------------------------------------------
(* Properties of latest_scan_timestamp. *)

Scanned == Len(lastStmt) > 0 /\ lastStmt[1].kind = "scan"
Scans == drift["drift_scans"]
ScanTimes == {Scans.rows[i].created_at : i \in 1..Len(Scans.rows)}

\* C21: on an attached drift store latest_scan_timestamp returns None when
\* the store has no drift_scans table, None when the table is empty, and
\* otherwise Some(m), m the greatest created_at of the rows of drift_scans.
C21_LatestScanOrNone ==
    (Scanned /\ lastStmt[1].fault = "none") =>
        /\ ~Scans.exists => lastStmt[1].result = None
        /\ (Scans.exists /\ ScanTimes = {}) => lastStmt[1].result = None
        /\ (Scans.exists /\ ScanTimes # {}) =>
            /\ lastStmt[1].result.tag = "Some"
            /\ lastStmt[1].result.val \in ScanTimes
            /\ \A m \in ScanTimes : m <= lastStmt[1].result.val

C21_WitnessMaximum ==
    /\ Scanned /\ lastStmt[1].fault = "none"
    /\ Scans.exists /\ Len(Scans.rows) = 2
    /\ Scans.rows[1].created_at > Scans.rows[2].created_at
    /\ lastStmt[1].result = Some(Scans.rows[1].created_at)

-----------------------------------------------------------------------------
(* Properties of the version over a sequence of migrate calls. *)

\* C22: starting from an empty store, whatever migrate calls are made and
\* whether they succeed or fail, every version get_schema_version reads is at
\* most CURRENT_VERSION and no read returns less than an earlier read.
C22_VersionBoundedMonotone ==
    store0 = FreshStore =>
        /\ \A i \in 1..Len(reads) : reads[i].version <= CURRENT_VERSION
        /\ \A i, j \in 1..Len(reads) :
            i < j => reads[i].version <= reads[j].version

C22_WitnessAcrossFailure ==
    /\ store0 = FreshStore /\ Len(reads) = 2
    /\ reads[1].calls = 1 /\ ~IsOk(returns[1]) /\ reads[1].version = 0
    /\ reads[2].calls = 2 /\ IsOk(returns[2]) /\ reads[2].version = CURRENT_VERSION

-----------------------------------------------------------------------------
(* Readiness against the aggregate. *)

\* C23: for every list of checks, when is_ready is true compute_health is
\* Available or Degraded, never Unavailable.
C23_ReadyNeverUnavailable ==
    (Len(ready) > 0 /\ ready[1] /\ Computed) =>
        /\ health.tag \in {"Available", "Degraded"}
        /\ health # Unavailable

C23_WitnessReadyDegraded ==
    /\ Len(ready) > 0 /\ ready[1] /\ Computed
    /\ health.tag = "Degraded"
    /\ \E i \in 1..Len(checks) : checks[i].name = "cortex_db" /\ ~checks[i].healthy

-----------------------------------------------------------------------------
(* Two migrate calls at once. *)

BothReturnedOk ==
    \A p \in Callers :
        calls[p].pc = "done" /\ IsOk(calls[p].result[1])

\* C24: when two migrate calls whose statements interleave have both returned
\* on a store that was at version 0, the store is at CURRENT_VERSION with
\* exactly one schema_version marker row and exactly one schema_migration
\* event row of the step v0_to_v1.
C24_ConcurrentMigrateOneStep ==
    (BothReturnedOk /\ get_schema_version(store0) = 0) =>
        /\ get_schema_version(store) = CURRENT_VERSION
        /\ Len(MarkerRows(store)) = 1
        /\ Cardinality({i \in 1..Len(store.event_log) :
                /\ store.event_log[i].event_type = "schema_migration"
                /\ store.event_log[i].memory_type = "v0_to_v1"}) = 1

====
